---- MODULE Spec2Model ----
(***************************************************************************)
(* Model of the Trello client of src/scripts/integrator.py                 *)
(* (class TrelloIntegrator).  One action per public method; the HTTP       *)
(* responses of the remote API are inputs chosen by the environment.       *)
(*                                                                         *)
(* Representation of Python values:                                        *)
(*   - text data (names, ids, credentials): a sequence of one-character    *)
(*     strings, "" being << >>;                                            *)
(*   - identifiers that are only compared or used as dictionary keys       *)
(*     (field names, the `key` argument, element names, HTTP methods):     *)
(*     TLA+ strings, "" being the empty one;                               *)
(*   - None among text data: the value None below;                         *)
(*   - a JSON object / dict: a function from its field names;              *)
(*   - a value returned by a method: a record [kind, val], so that None,   *)
(*     "", [] and {} stay distinct.                                        *)
(***************************************************************************)
EXTENDS Integers, Sequences, FiniteSets, TLC

\* ------------------------------------------------------------------ bounds
MaxLen == 2      \* longest JSON array the remote API answers with
MaxCalls == 2    \* method calls made on one client

\* ----------------------------------------------------------- Python values
None == <<"None">>
Empty == << >>

Falsy(v) == v = None \/ v = Empty
Truthy(v) == ~Falsy(v)

PyNone == [kind |-> "None", val |-> << >>]
PyStr(s) == [kind |-> "str", val |-> s]
PyList(l) == [kind |-> "list", val |-> l]
PyDict(d) == [kind |-> "dict", val |-> d]
PyRaised == [kind |-> "raise", val |-> << >>]

\* a text datum (possibly None) as a returned value
Wrap(v) == IF v = None THEN PyNone ELSE PyStr(v)
\* a returned str / None as a text datum
Unwrap(r) == IF r.kind = "None" THEN None ELSE r.val

EmptyDict == [x \in {} |-> << >>]

\* `if response:` on a returned value
IsTrue(r) ==
  CASE r.kind = "None" -> FALSE
    [] r.kind = "dict" -> DOMAIN r.val # {}
    [] OTHER -> Len(r.val) > 0

\* dict.get(k) and dict.get(k, default)
GetD(item, k, default) == IF k \in DOMAIN item THEN item[k] ELSE default
Get(item, k) == GetD(item, k, None)

\* `target in text` for two strings
IsSubstring(t, s) ==
  \E i \in 0..(Len(s) - Len(t)) : SubSeq(s, i + 1, i + Len(t)) = t

\* ------------------------------------------------------------ text literals
Back == <<"B", "a", "c", "k">>
Backlog == <<"B", "a", "c", "k", "l", "o", "g">>
Done == <<"D", "o", "n", "e">>
Bob == <<"B", "o", "b">>
Hi == <<"h", "i">>
TitleA == <<"A">>
TitleB == <<"B">>
AssignedTo == <<"\n", "A", "s", "s", "i", "g", "n", "e", "d", " ", "t", "o", ":", " ">>

Digits == <<"1", "2", "3", "4", "5">>
ElemId(i) == <<Digits[i]>>
CardId(i) == <<"c", Digits[i]>>

\* --------------------------------------------------------- remote responses
StatusOK == 200
Statuses == {200, 201, 404}

\* records of a board collection: the i-th carries the i-th id; a list or a
\* label carries a name, a member a fullName, and either may be missing
ElementItems(i) ==
  {[id |-> ElemId(i)]}
    \cup {[id |-> ElemId(i), name |-> n] : n \in {Backlog, Done}}
    \cup {[id |-> ElemId(i), fullName |-> Bob]}

\* cards of a list: the i-th carries the i-th card id; titles may repeat
CardItems(i) ==
  {[id |-> CardId(i)]} \cup {[id |-> CardId(i), name |-> n] : n \in {TitleA, TitleB}}

\* entries of a card's action log
ActionItems(i) ==
  LET types == {EmptyDict} \cup {[type |-> t] : t \in {"commentCard", "other"}}
      datas == {EmptyDict} \cup {[data |-> d] : d \in {EmptyDict, [text |-> Hi]}}
      creators == {EmptyDict}
                    \cup {[memberCreator |-> m] : m \in {EmptyDict, [fullName |-> Bob]}}
  IN {[f \in DOMAIN a \cup DOMAIN b \cup DOMAIN c |->
         IF f \in DOMAIN a THEN a[f] ELSE IF f \in DOMAIN b THEN b[f] ELSE c[f]]
       : a \in types, b \in datas, c \in creators}

\* the records a response of the given kind may hold at index i
ItemsOf(kind, i) ==
  CASE kind = "element" -> ElementItems(i)
    [] kind = "card" -> CardItems(i)
    [] kind = "action" -> ActionItems(i)

RECURSIVE Arrays(_, _)
\* the JSON arrays of length n whose i-th entry is drawn from ItemsOf(kind, i)
Arrays(kind, n) ==
  IF n = 0 THEN {<< >>}
  ELSE {Append(a, x) : a \in Arrays(kind, n - 1), x \in ItemsOf(kind, n)}

ArraysUpTo(kind) == UNION {Arrays(kind, n) : n \in 0..MaxLen}

Responses(bodies) == [status : Statuses, body : bodies]

ElementResponses == Responses({PyList(a) : a \in ArraysUpTo("element")})
CardResponses == Responses({PyList(a) : a \in ArraysUpTo("card")})
ActionResponses == Responses({PyList(a) : a \in ArraysUpTo("action")})
\* the single JSON object, the card's record, a card mutation answers with
ObjectResponses == Responses({PyDict([id |-> CardId(i)]) : i \in 1..2})

\* ------------------------------------------------------------------- state
VARIABLES
  alive,      \* a client has been constructed
  board_id,   \* self.board_id
  apikey,     \* self.apikey
  token,      \* self.token
  call,       \* the method call in progress or just made, with its outcome
  ncalls,     \* method calls made on the client so far
  nreq        \* HTTP requests the client has sent so far

vars == <<alive, board_id, apikey, token, call, ncalls, nreq>>

Idle == [op |-> "idle"]

\* what a method call did: the value returned (PyRaised when it raised), the
\* exception, the requests sent and the log lines written, both in order
Outcome(result, requests, log) ==
  [result |-> result, raised |-> "none", requests |-> requests, log |-> log]
Raise(exception, requests, log) ==
  [result |-> PyRaised, raised |-> exception, requests |-> requests, log |-> log]

Request(method, url, params) == [method |-> method, url |-> url, params |-> params]

\* query = {"key": self.apikey, "token": self.token}
AuthQuery == [key |-> apikey, token |-> token]

\* requests.get / post / put answer `resp`; the JSON body on status 200,
\* otherwise an error line and None
MakeRequest(resp) ==
  IF resp.status = StatusOK
    THEN [value |-> resp.body, log |-> << >>]
    ELSE [value |-> PyNone, log |-> <<"ERROR">>]

\* __init__ --------------------------------------------------------------
\* os.getenv fallback of a credential passed empty
Resolve(arg, env) == IF Falsy(arg) THEN env ELSE arg

MissingCredentialsAnd(k, t) == Falsy(k) /\ Falsy(t)
MissingCredentials(k, t) == Falsy(k) \/ Falsy(t)

InitOutcome(a_apikey, a_token, a_board, env_apikey, env_token) ==
  IF Falsy(a_board) THEN "NotImplementedError"
  ELSE IF MissingCredentials(Resolve(a_apikey, env_apikey), Resolve(a_token, env_token))
    THEN "NotImplementedError"
  ELSE "none"

\* create_new_card -------------------------------------------------------
CreateQuery(title, list_id, tag_id, description, user_name, user_id) ==
  LET base == [name |-> title, idList |-> list_id, key |-> apikey, token |-> token]
      desc == IF Truthy(user_name) THEN [desc |-> description \o AssignedTo \o user_name]
              ELSE IF Truthy(description) THEN [desc |-> description]
              ELSE EmptyDict
      labels == IF Truthy(tag_id) THEN [idLabels |-> tag_id] ELSE EmptyDict
      members == IF Truthy(user_id) THEN [idMembers |-> user_id] ELSE EmptyDict
      parts == <<base, desc, labels, members>>
  IN [f \in UNION {DOMAIN parts[i] : i \in 1..4} |->
        parts[CHOOSE i \in 1..4 : f \in DOMAIN parts[i]][f]]

\* the three card mutations share their tail: one request, a log line that
\* depends on the response, and no return statement
Mutation(req, resp) ==
  LET r == MakeRequest(resp)
  IN Outcome(PyNone, <<req>>,
             r.log \o (IF IsTrue(r.value) THEN <<"INFO">> ELSE <<"ERROR">>))

CreateNewCard(title, list_id, tag_id, description, user_name, user_id, resp) ==
  Mutation(Request("POST", <<"cards">>,
                   CreateQuery(title, list_id, tag_id, description, user_name, user_id)),
           resp)

MoveCards(card_id, destination_list_id, resp) ==
  Mutation(Request("PUT", <<"cards", card_id>>,
                   [idList |-> destination_list_id, key |-> apikey, token |-> token]),
           resp)

ArchiveCard(card_id, resp) ==
  Mutation(Request("PUT", <<"cards", card_id>>,
                   [closed |-> <<"t", "r", "u", "e">>, key |-> apikey, token |-> token]),
           resp)

\* get_comments ----------------------------------------------------------
IsComment(item) == "type" \in DOMAIN item /\ item["type"] = "commentCard"

CommentRecord(item) ==
  [user |-> GetD(GetD(item, "memberCreator", EmptyDict), "fullName", Empty),
   message_content |-> GetD(GetD(item, "data", EmptyDict), "text", Empty)]

RECURSIVE CollectComments(_, _, _)
\* the loop over the response, from index i on, appending to records
CollectComments(items, i, records) ==
  IF i > Len(items) THEN records
  ELSE CollectComments(items, i + 1,
         IF IsComment(items[i]) THEN Append(records, CommentRecord(items[i]))
         ELSE records)

GetComments(card_id, resp) ==
  LET req == Request("GET", <<"cards", card_id, "actions">>, AuthQuery)
      r == MakeRequest(resp)
  IN IF IsTrue(r.value)
       THEN Outcome(PyList(CollectComments(r.value.val, 1, << >>)), <<req>>, r.log)
       ELSE Outcome(PyNone, <<req>>, r.log)

\* get_card_details ------------------------------------------------------
GetCardDetails(card_id, resp) ==
  LET req == Request("GET", <<"cards", card_id, "actions">>, AuthQuery)
      r == MakeRequest(resp)
  IN IF IsTrue(r.value) THEN Outcome(r.value, <<req>>, r.log)
     ELSE Outcome(PyNone, <<req>>, r.log)

\* get_trello_element ----------------------------------------------------
UsageErrorNever(key, target) == FALSE
UsageError(key, target) == Truthy(target) /\ key = ""

RECURSIVE ScanForTarget(_, _, _, _)
\* the loop `for item in response: if target in item.get(key): return id`,
\* from index i on: "found" with the id, "TypeError" when the field is None,
\* "exhausted" when the loop ends without returning
ScanForTarget(items, key, target, i) ==
  IF i > Len(items) THEN [how |-> "exhausted", id |-> None]
  ELSE LET v == Get(items[i], key)
       IN IF v = None THEN [how |-> "TypeError", id |-> None]
          ELSE IF IsSubstring(target, v)
            THEN [how |-> "found", id |-> Get(items[i], "id")]
          ELSE ScanForTarget(items, key, target, i + 1)

GetTrelloElement(element, key, target, resp) ==
  IF UsageError(key, target) THEN Raise("NotImplementedError", << >>, << >>)
  ELSE
    LET req == Request("GET", <<"boards", board_id, element>>, AuthQuery)
        r == MakeRequest(resp)
        items == r.value.val
        scan == ScanForTarget(items, key, target, 1)
    IN IF IsTrue(r.value)
         THEN IF Truthy(target)
                THEN CASE scan.how = "found" -> Outcome(Wrap(scan.id), <<req>>, r.log)
                       [] scan.how = "TypeError" -> Raise("TypeError", <<req>>, r.log)
                       [] OTHER -> Outcome(PyStr(Empty), <<req>>, r.log)
              ELSE IF key # ""
                THEN Outcome(PyList([i \in 1..Len(items) |-> Get(items[i], key)]),
                             <<req>>, r.log)
              ELSE Outcome(r.value, <<req>>, r.log)
       ELSE Outcome(PyStr(Empty), <<req>>, r.log)

GetTags(key, target, resp) == GetTrelloElement("labels", key, target, resp)
GetMembers(key, target, resp) == GetTrelloElement("members", key, target, resp)
GetLists(key, target, resp) == GetTrelloElement("lists", key, target, resp)

\* get_cards_from_list ---------------------------------------------------
DictSet(d, k, v) == [x \in DOMAIN d \cup {k} |-> IF x = k THEN v ELSE d[x]]

RECURSIVE BuildCards(_, _, _)
\* the loop `cards[item.get("name")] = item.get("id")` from index i on
BuildCards(items, i, cards) ==
  IF i > Len(items) THEN cards
  ELSE BuildCards(items, i + 1,
                  DictSet(cards, Get(items[i], "name"), Get(items[i], "id")))

\* the part after the list id is settled: the cards request and the mapping
CardsOf(list_id, resp, sent, log) ==
  LET req == Request("GET", <<"lists", list_id, "cards">>, AuthQuery)
      r == MakeRequest(resp)
  IN IF IsTrue(r.value)
       THEN Outcome(PyDict(BuildCards(r.value.val, 1, EmptyDict)),
                    Append(sent, req), log \o r.log)
       ELSE Outcome(PyNone, Append(sent, req), log \o r.log)

\* resp1 answers the lists lookup (read only when list_name is given),
\* resp2 the cards request
GetCardsFromList(list_name, list_id, resp1, resp2) ==
  IF Falsy(list_name) /\ Falsy(list_id)
    THEN Raise("NotImplementedError", << >>, << >>)
  ELSE IF Truthy(list_name)
    THEN LET lookup == GetLists("name", list_name, resp1)
         IN IF lookup.raised # "none" THEN lookup
            ELSE CardsOf(Unwrap(lookup.result), resp2, lookup.requests, lookup.log)
  ELSE CardsOf(list_id, resp2, << >>, << >>)

\* ------------------------------------------------------------- input values
KeyArg == <<"k">>
TokenArg == <<"t">>
KeyEnv == <<"e">>
TokenEnv == <<"f">>
BoardArg == <<"b">>
ListIdArg == <<"9">>
TagArg == <<"g">>
UserIdArg == <<"u">>

Elements == {"lists", "labels", "members"}
Keys == {"", "name", "fullName"}
Targets == {Empty, Back, Bob}

\* ----------------------------------------------------------------- actions
Init ==
  /\ alive = FALSE
  /\ board_id = Empty
  /\ apikey = Empty
  /\ token = Empty
  /\ call = Idle
  /\ ncalls = 0
  /\ nreq = 0

\* no method call is waiting for its caller to take the outcome
Ready == call.op \in {"idle", "__init__"}

CallRecord(op, args, responses, out) ==
  [op |-> op, args |-> args, responses |-> responses, result |-> out.result,
   raised |-> out.raised, requests |-> out.requests, log |-> out.log]

\* the caller may make a method call on the client
Callable == alive /\ Ready /\ ncalls < MaxCalls

\* a method call on the constructed client, with everything it does
Finish(op, args, responses, out) ==
  /\ call' = CallRecord(op, args, responses, out)
  /\ ncalls' = ncalls + 1
  /\ nreq' = nreq + Len(out.requests)
  /\ UNCHANGED <<alive, board_id, apikey, token>>

\* TrelloIntegrator(apikey, token, board_id) under an environment
Construct ==
  \E a_apikey \in {Empty, KeyArg}, a_token \in {Empty, TokenArg},
     a_board \in {Empty, BoardArg},
     env_apikey \in {None, Empty, KeyEnv}, env_token \in {None, Empty, TokenEnv} :
    LET raised == InitOutcome(a_apikey, a_token, a_board, env_apikey, env_token)
    IN /\ ~alive
       /\ call' = [op |-> "__init__",
                   args |-> [apikey |-> a_apikey, token |-> a_token, board_id |-> a_board],
                   env |-> [TRELLO_APIKEY |-> env_apikey, TRELLO_TOKEN |-> env_token],
                   result |-> IF raised = "none" THEN PyNone ELSE PyRaised,
                   raised |-> raised, requests |-> << >>, log |-> << >>]
       /\ IF raised = "none"
            THEN /\ alive' = TRUE
                 /\ board_id' = a_board
                 /\ apikey' = Resolve(a_apikey, env_apikey)
                 /\ token' = Resolve(a_token, env_token)
            ELSE UNCHANGED <<alive, board_id, apikey, token>>
       /\ UNCHANGED <<ncalls, nreq>>

create_new_card ==
  /\ Callable
  /\ \E tag_id \in {Empty, TagArg}, description \in {Empty, Hi},
        user_name \in {Empty, Bob}, user_id \in {Empty, UserIdArg},
        resp \in ObjectResponses :
    Finish("create_new_card",
           [title |-> TitleA, list_id |-> ElemId(1), tag_id |-> tag_id,
            description |-> description, user_name |-> user_name, user_id |-> user_id],
           <<resp>>,
           CreateNewCard(TitleA, ElemId(1), tag_id, description, user_name, user_id, resp))

move_cards ==
  /\ Callable
  /\ \E resp \in ObjectResponses :
    Finish("move_cards", [card_id |-> CardId(1), destination_list_id |-> ElemId(1)],
           <<resp>>, MoveCards(CardId(1), ElemId(1), resp))

archive_card ==
  /\ Callable
  /\ \E resp \in ObjectResponses :
    Finish("archive_card", [card_id |-> CardId(1)], <<resp>>, ArchiveCard(CardId(1), resp))

get_comments ==
  /\ Callable
  /\ \E resp \in ActionResponses :
    Finish("get_comments", [card_id |-> CardId(1)], <<resp>>, GetComments(CardId(1), resp))

get_card_details ==
  /\ Callable
  /\ \E resp \in ActionResponses :
    Finish("get_card_details", [card_id |-> CardId(1)], <<resp>>,
           GetCardDetails(CardId(1), resp))

\* the responses a call consumed: none when it raised before its request
Consumed(out, resp) == IF out.requests = << >> THEN << >> ELSE <<resp>>

get_trello_element ==
  /\ Callable
  /\ \E element \in Elements, key \in Keys, target \in Targets, resp \in ElementResponses :
    LET out == GetTrelloElement(element, key, target, resp)
    IN Finish("get_trello_element", [element |-> element, key |-> key, target |-> target],
              Consumed(out, resp), out)

get_tags ==
  /\ Callable
  /\ \E key \in {"", "name"}, target \in Targets, resp \in ElementResponses :
    LET out == GetTags(key, target, resp)
    IN Finish("get_tags", [element |-> "labels", key |-> key, target |-> target],
              Consumed(out, resp), out)

get_members ==
  /\ Callable
  /\ \E key \in {"", "fullName"}, target \in Targets, resp \in ElementResponses :
    LET out == GetMembers(key, target, resp)
    IN Finish("get_members", [element |-> "members", key |-> key, target |-> target],
              Consumed(out, resp), out)

get_lists ==
  /\ Callable
  /\ \E key \in {"", "name"}, target \in Targets, resp \in ElementResponses :
    LET out == GetLists(key, target, resp)
    IN Finish("get_lists", [element |-> "lists", key |-> key, target |-> target],
              Consumed(out, resp), out)

get_cards_from_list ==
  /\ Callable
  /\ \E list_name \in {Empty, Back}, list_id \in {Empty, ListIdArg} :
    \/ /\ Falsy(list_name)
       /\ \E resp2 \in CardResponses :
            LET out == GetCardsFromList(list_name, list_id, resp2, resp2)
            IN Finish("get_cards_from_list", [list_name |-> list_name, list_id |-> list_id],
                      SubSeq(<<resp2>>, 1, Len(out.requests)), out)
    \/ /\ Truthy(list_name)
       /\ \E resp1 \in ElementResponses, resp2 \in CardResponses :
            LET out == GetCardsFromList(list_name, list_id, resp1, resp2)
            IN Finish("get_cards_from_list", [list_name |-> list_name, list_id |-> list_id],
                      SubSeq(<<resp1, resp2>>, 1, Len(out.requests)), out)

\* the caller takes the outcome of the call
Return ==
  /\ ~Ready
  /\ call' = Idle
  /\ UNCHANGED <<alive, board_id, apikey, token, ncalls, nreq>>

Next ==
  \/ Construct
  \/ create_new_card
  \/ move_cards
  \/ archive_card
  \/ get_comments
  \/ get_card_details
  \/ get_trello_element
  \/ get_tags
  \/ get_members
  \/ get_lists
  \/ get_cards_from_list
  \/ Return

Spec == Init /\ [][Next]_vars

\* the client restricted to its construction and the board-collection lookups
LookupNext ==
  \/ Construct
  \/ get_trello_element
  \/ get_tags
  \/ get_members
  \/ get_lists
  \/ Return

LookupSpec == Init /\ [][LookupNext]_vars

\* ------------------------------------------------------------------ claims
LookupOps == {"get_trello_element", "get_tags", "get_members", "get_lists"}
MutationOps == {"create_new_card", "move_cards", "archive_card"}
MethodOps ==
  LookupOps \cup MutationOps \cup {"get_comments", "get_card_details", "get_cards_from_list"}

\* C2: construction succeeds exactly when board_id is non-empty and both
\* credentials are non-empty after the environment fallback of a credential
\* passed empty; in every other case it raises.  On success the client holds
\* the board id and the resolved credentials.
C2_ConstructionIffConfigured ==
  call.op = "__init__" =>
    LET k == IF call.args.apikey = << >> THEN call.env.TRELLO_APIKEY ELSE call.args.apikey
        t == IF call.args.token = << >> THEN call.env.TRELLO_TOKEN ELSE call.args.token
        configured == /\ call.args.board_id # << >>
                      /\ k \notin {None, << >>}
                      /\ t \notin {None, << >>}
    IN /\ configured => /\ call.raised = "none"
                        /\ alive
                        /\ <<apikey, token, board_id>> = <<k, t, call.args.board_id>>
       /\ ~configured => call.raised = "NotImplementedError" /\ ~alive

\* C2 witness: a construction that succeeds on a key taken from the environment
C2_Witness ==
  /\ call.op = "__init__"
  /\ call.args.apikey = << >>
  /\ call.env.TRELLO_APIKEY = KeyEnv
  /\ call.raised = "none"
  /\ apikey = KeyEnv

\* C3: a lookup called with a non-empty target and an empty key raises the
\* usage error, for every element, before any request is sent.
C3_TargetWithoutKeyRaises ==
  (call.op \in LookupOps /\ call.args.target # << >> /\ call.args.key = "") =>
    /\ call.raised = "NotImplementedError"
    /\ call.requests = << >>
    /\ call.responses = << >>

\* C3 witness: such a call on the members collection has raised
C3_Witness ==
  /\ call.op = "get_trello_element"
  /\ call.args.element = "members"
  /\ call.args.target = Bob
  /\ call.args.key = ""
  /\ call.raised = "NotImplementedError"

\* the value a method returns when it reports nothing: None, or "" for a lookup
IsAbsent(c) ==
  IF c.op \in LookupOps THEN c.result = PyStr(<< >>) ELSE c.result = PyNone

\* C1: whichever request of a method call is answered with a status that is
\* not 2xx, the method raises nothing and returns the absent result; this
\* includes the list-name lookup inside get_cards_from_list.
C1_NonSuccessYieldsAbsent ==
  call.op \in MethodOps =>
    \A i \in 1..Len(call.responses) :
      call.responses[i].status \notin 200..299 =>
        call.raised = "none" /\ IsAbsent(call)

\* what C1 gets right: the method whose own last request is answered with a
\* status other than 200 raises nothing and returns the absent result
C1_LastRequestFailedYieldsAbsent ==
  (call.op \in MethodOps /\ call.responses # << >>
     /\ call.responses[Len(call.responses)].status # StatusOK) =>
    call.raised = "none" /\ IsAbsent(call)

\* the records of a 200 response whose value under key contains target
Matches(items, key, target) ==
  {i \in 1..Len(items) : key \in DOMAIN items[i] /\ IsSubstring(target, items[i][key])}

\* C4: a lookup with key and target on a successful collection returns the id
\* of the first record, in response order, whose value under key contains
\* target, also when a record before it lacks the key field.
C4_FirstSubstringMatch ==
  (call.op \in LookupOps /\ call.args.key # "" /\ call.args.target # << >>
     /\ call.responses # << >> /\ call.responses[1].status = StatusOK) =>
    LET items == call.responses[1].body.val
        hits == Matches(items, call.args.key, call.args.target)
    IN hits # {} =>
         LET first == CHOOSE i \in hits : \A j \in hits : i <= j
         IN call.raised = "none" /\ call.result = PyStr(items[first].id)

\* what C4 gets right: when every record before the first match has the key
\* field, the id of the first match is returned
C4_FirstMatchWhenKeyPresent ==
  (call.op \in LookupOps /\ call.args.key # "" /\ call.args.target # << >>
     /\ call.responses # << >> /\ call.responses[1].status = StatusOK) =>
    LET items == call.responses[1].body.val
        hits == Matches(items, call.args.key, call.args.target)
    IN hits # {} =>
         LET first == CHOOSE i \in hits : \A j \in hits : i <= j
         IN (\A j \in 1..(first - 1) : call.args.key \in DOMAIN items[j]) =>
              call.raised = "none" /\ call.result = PyStr(items[first].id)

\* C5: a lookup without target on a successful collection returns, with a
\* key, the value of every record under key in response order, and without
\* a key the records themselves; the empty collection included.
C5_WholeCollection ==
  (call.op \in LookupOps /\ call.args.target = << >>
     /\ call.responses # << >> /\ call.responses[1].status = StatusOK) =>
    LET items == call.responses[1].body.val
    IN /\ call.raised = "none"
       /\ call.result.kind = "list"
       /\ Len(call.result.val) = Len(items)
       /\ \A i \in 1..Len(items) :
            call.result.val[i] =
              IF call.args.key = "" THEN items[i]
              ELSE IF call.args.key \in DOMAIN items[i] THEN items[i][call.args.key]
              ELSE None

\* what C5 gets right: the same, for a collection that is not empty
C5_WholeNonEmptyCollection ==
  (call.op \in LookupOps /\ call.args.target = << >>
     /\ call.responses # << >> /\ call.responses[1].status = StatusOK
     /\ call.responses[1].body.val # << >>) =>
    LET items == call.responses[1].body.val
    IN /\ call.raised = "none"
       /\ call.result.kind = "list"
       /\ Len(call.result.val) = Len(items)
       /\ \A i \in 1..Len(items) :
            call.result.val[i] =
              IF call.args.key = "" THEN items[i]
              ELSE IF call.args.key \in DOMAIN items[i] THEN items[i][call.args.key]
              ELSE None

\* the cards response of a get_cards_from_list call that reached its cards
\* request
CardsAnswered(c) ==
  /\ c.op = "get_cards_from_list"
  /\ c.raised = "none"
  /\ c.responses[Len(c.responses)].status = StatusOK

TitleOf(item) == IF "name" \in DOMAIN item THEN item.name ELSE None

\* the mapping of C6 for a result: one entry per distinct title, each title
\* mapped to the id of the last card carrying it
IsTitleMapping(result, items) ==
  /\ result.kind = "dict"
  /\ DOMAIN result.val = {TitleOf(items[i]) : i \in 1..Len(items)}
  /\ \A i \in 1..Len(items) :
       (\A j \in (i + 1)..Len(items) : TitleOf(items[j]) # TitleOf(items[i])) =>
         result.val[TitleOf(items[i])] = items[i].id

\* C6: on a successful cards response get_cards_from_list returns the mapping
\* with one entry per distinct title, each mapped to the id of the last card
\* in response order carrying that title.
C6_LastCardPerTitle ==
  CardsAnswered(call) =>
    IsTitleMapping(call.result, call.responses[Len(call.responses)].body.val)

\* what C6 gets right: the same, for a cards response that is not empty
C6_LastCardPerTitleNonEmpty ==
  (CardsAnswered(call) /\ call.responses[Len(call.responses)].body.val # << >>) =>
    IsTitleMapping(call.result, call.responses[Len(call.responses)].body.val)

\* the comment record C7 expects of an action
ExpectedComment(item) ==
  [user |-> IF "memberCreator" \in DOMAIN item
              /\ "fullName" \in DOMAIN item.memberCreator
            THEN item.memberCreator.fullName ELSE << >>,
   message_content |-> IF "data" \in DOMAIN item /\ "text" \in DOMAIN item.data
                       THEN item.data.text ELSE << >>]

IsCommentAction(item) == "type" \in DOMAIN item /\ item.type = "commentCard"

\* the sequence of C7 for a result: one record per commentCard action, in the
\* order of the actions, and nothing for another action
IsCommentSequence(result, items) ==
  /\ result.kind = "list"
  /\ result.val = [i \in 1..Len(SelectSeq(items, IsCommentAction)) |->
                     ExpectedComment(SelectSeq(items, IsCommentAction)[i])]

\* C7: on a successful actions response get_comments returns one
\* {user, message_content} record per commentCard action, in order, with the
\* empty string for a missing field, and no record for another action.
C7_OneRecordPerComment ==
  (call.op = "get_comments" /\ call.responses[1].status = StatusOK) =>
    IsCommentSequence(call.result, call.responses[1].body.val)

\* what C7 gets right: the same, for an action log that is not empty
C7_OneRecordPerCommentNonEmpty ==
  (call.op = "get_comments" /\ call.responses[1].status = StatusOK
     /\ call.responses[1].body.val # << >>) =>
    IsCommentSequence(call.result, call.responses[1].body.val)

\* C8: create_new_card and move_cards return the record of the remote API
\* when the request succeeds, and nothing, with an error logged, when it
\* fails.
C8_MutationReturnsRecord ==
  call.op \in {"create_new_card", "move_cards"} =>
    IF call.responses[1].status = StatusOK
      THEN call.result = call.responses[1].body
      ELSE call.result = PyNone /\ \E i \in 1..Len(call.log) : call.log[i] = "ERROR"

\* what C8 gets right: a failed mutation returns nothing and logs an error
\* (a successful one returns nothing too, and logs no error)
C8_MutationLogsOutcome ==
  call.op \in MutationOps =>
    /\ call.result = PyNone
    /\ call.responses[1].status # StatusOK =>
         \E i \in 1..Len(call.log) : call.log[i] = "ERROR"
    /\ (call.responses[1].status = StatusOK /\ IsTrue(call.responses[1].body)) =>
         call.log = <<"INFO">>

\* C9: with a non-empty list_id the cards request goes to
\* /lists/<list_id>/cards and no name lookup is made, also when a list_name
\* is passed with it; the name is looked up only when list_id is empty.
C9_LookupOnlyWithoutListId ==
  (call.op = "get_cards_from_list" /\ call.args.list_id # << >>) =>
    /\ Len(call.requests) = 1
    /\ call.requests[1].url = <<"lists", call.args.list_id, "cards">>

\* what the method does instead: the name is looked up whenever list_name is
\* given, and the list id passed is used only without a list_name
C9_LookupWheneverNamed ==
  (call.op = "get_cards_from_list" /\ call.raised = "none") =>
    IF call.args.list_name # << >>
      THEN /\ Len(call.requests) = 2
           /\ call.requests[1].url = <<"boards", board_id, "lists">>
      ELSE call.requests = <<Request("GET", <<"lists", call.args.list_id, "cards">>,
                                     [key |-> apikey, token |-> token])>>

\* the number of requests C10 gives a call
ExpectedRequests(c) ==
  IF c.raised = "NotImplementedError" THEN 0
  ELSE IF c.op = "get_cards_from_list" /\ c.args.list_name # << >> THEN 2
  ELSE 1

\* C10: every call sends a fixed number of requests, whatever the responses
\* and the earlier calls: one, two for get_cards_from_list resolving by name,
\* none for a call failing its usage precondition; nothing is retried and
\* nothing is answered from an earlier response.
C10_FixedRequestCount ==
  [][call'.op \in MethodOps =>
       /\ Len(call'.requests) = ExpectedRequests(call')
       /\ nreq' = nreq + ExpectedRequests(call')]_vars

\* what C10 gets right: the same for every call that does not end in the
\* TypeError of the lookup
C10_FixedRequestCountUnlessTypeError ==
  [][(call'.op \in MethodOps /\ call'.raised # "TypeError") =>
       /\ Len(call'.requests) = ExpectedRequests(call')
       /\ nreq' = nreq + ExpectedRequests(call')]_vars

====
